---- MODULE Spec2Model ----
(***************************************************************************)
(* A model of materialsuite_endpoint/blueprint/__init__.py: the storage    *)
(* backends (MongoStorageBackend, FileSystemStorageBackend and the mixed   *)
(* FileContentMongoPremisStorageBackend), the ingest handler               *)
(* AddMaterialSuite.post and the read handlers.  Every in-flight request   *)
(* is a process; a process step is one access to the shared stores or one  *)
(* block of request-local computation.                                     *)
(***************************************************************************)
EXTENDS Integers, Sequences, FiniteSets, TLC

\* Number of request-handling workers (each serves one ingest request).
NumProcs == 2

\* Longest key string fed to escape / unescape.
MaxKeyLen == 2

Procs == 1..NumProcs

(***************************************************************************)
(* Strings are sequences of one-character strings.                         *)
(***************************************************************************)
RECURSIVE SeqsUpTo(_, _)
SeqsUpTo(S, n) ==
    IF n = 0 THEN {<<>>}
    ELSE LET shorter == SeqsUpTo(S, n - 1)
         IN  shorter \cup {Append(s, c) : s \in {t \in shorter : Len(t) = n - 1}, c \in S}

(***************************************************************************)
(* werkzeug.utils.secure_filename, as called at line 597 (POSIX: os.sep is *)
(* "/", os.path.altsep is None; the inputs are ASCII).                     *)
(***************************************************************************)
Whitespace == {" "}

FilenameAsciiChars == {"a", "b", "c", "0", "1", "_", ".", "-"}

\* filename.replace(os.sep, " ")
ReplaceSep(s) == [k \in 1..Len(s) |-> IF s[k] = "/" THEN " " ELSE s[k]]

\* "_".join(filename.split()): whitespace runs become one "_", none at the ends
RECURSIVE SplitJoin(_, _, _)
SplitJoin(s, acc, pendingGap) ==
    IF s = <<>> THEN acc
    ELSE IF Head(s) \in Whitespace
         THEN SplitJoin(Tail(s), acc, acc # <<>>)
         ELSE SplitJoin(Tail(s),
                        (IF pendingGap THEN Append(acc, "_") ELSE acc) \o <<Head(s)>>,
                        FALSE)

\* _filename_ascii_strip_re.sub("", ...): drop everything outside [A-Za-z0-9_.-]
AsciiStrip(s) == SelectSeq(s, LAMBDA c : c \in FilenameAsciiChars)

\* str.strip("._")
RECURSIVE LStrip(_)
LStrip(s) == IF s # <<>> /\ Head(s) \in {".", "_"} THEN LStrip(Tail(s)) ELSE s

RECURSIVE RStrip(_)
RStrip(s) ==
    IF s # <<>> /\ s[Len(s)] \in {".", "_"} THEN RStrip(SubSeq(s, 1, Len(s) - 1)) ELSE s

secure_filename(s) == RStrip(LStrip(AsciiStrip(SplitJoin(ReplaceSep(s), <<>>, FALSE))))

(***************************************************************************)
(* Request inputs.                                                         *)
(***************************************************************************)
\* Object identifiers a submitted PREMIS record may declare:
\* "a", "b", "a." and "../b".
Identifiers == { <<"a">>, <<"b">>, <<"a", ".">>, <<".", ".", "/", "b">> }

\* Content payloads (byte strings).
Hello == <<1, 2>>
World == <<3>>
Contents == {Hello, World}

\* hashlib.md5 (line 6), reduced to a digest that tells the payloads apart.
RECURSIVE Md5(_)
Md5(bytes) == IF bytes = <<>> THEN 7 ELSE (31 * Md5(Tail(bytes)) + Head(bytes)) % 251

(***************************************************************************)
(* pypremis records: a record is a list of objects and a list of events.   *)
(***************************************************************************)
NoRecord == [objects |-> <<>>, events |-> <<>>]

PremisObject(id) ==
    [objectIdentifier         |-> <<id>>,
     objectCharacteristics    |->
         << [fixity |-> << [messageDigestAlgorithm |-> "md5",
                            messageDigest          |-> Md5(Hello)] >>] >>,
     linkingEventIdentifier   |-> <<>>]

\* An event a record carries before it is submitted.
PriorEvent ==
    [eventIdentifier         |-> [eventIdentifierType |-> "uuid4", eventIdentifierValue |-> 0],
     eventType               |-> "creation",
     eventDetail             |-> "created",
     linkingObjectIdentifier |-> <<>>]

\* The records a client may submit for an object identifier: a bare record,
\* and one with a second object and an earlier event.
PremisInputs(id) ==
    { [objects |-> <<PremisObject(id)>>, events |-> <<>>],
      [objects |-> <<PremisObject(id), PremisObject(<<"c">>)>>, events |-> <<PriorEvent>>] }

\* AddMaterialSuite.post.get_md5_from_premis: the digest of the first md5
\* fixity of the first object; <<d>> when found, <<>> for None.
RECURSIVE FirstMd5(_)
FirstMd5(fixities) ==
    IF fixities = <<>> THEN <<>>
    ELSE IF Head(fixities).messageDigestAlgorithm = "md5"
         THEN <<Head(fixities).messageDigest>>
         ELSE FirstMd5(Tail(fixities))

RECURSIVE FirstMd5OfChars(_)
FirstMd5OfChars(objChars) ==
    IF objChars = <<>> THEN <<>>
    ELSE IF FirstMd5(Head(objChars).fixity) # <<>>
         THEN FirstMd5(Head(objChars).fixity)
         ELSE FirstMd5OfChars(Tail(objChars))

get_md5_from_premis(rec) == FirstMd5OfChars(rec.objects[1].objectCharacteristics)

\* LinkingObjectIdentifierFactory(obj).produce_linking_node()
LinkingObjectIdentifier(obj) == [linkingObjectIdentifierValue |-> obj.objectIdentifier[1]]

\* LinkingEventIdentifierFactory(event).produce_linking_node()
LinkingEventIdentifier(event) ==
    [linkingEventIdentifierValue |-> event.eventIdentifier.eventIdentifierValue]

\* AddMaterialSuite.post.add_ingest_event._build_event; u is uuid4().hex
build_event(u) ==
    [eventIdentifier         |-> [eventIdentifierType |-> "uuid4", eventIdentifierValue |-> u],
     eventType               |-> "ingestion",
     eventDetail             |-> "bystream copied into the long term storage environment.",
     linkingObjectIdentifier |-> <<>>]

\* an add_ingest_event that forgets the object's link back to the event
add_ingest_event_one_way(rec, u) ==
    LET obj   == rec.objects[1]
        event == [build_event(u) EXCEPT
                     !.linkingObjectIdentifier = Append(@, LinkingObjectIdentifier(obj))]
    IN  [objects |-> rec.objects, events |-> Append(rec.events, event)]

\* AddMaterialSuite.post.add_ingest_event
add_ingest_event(rec, u) ==
    LET obj    == rec.objects[1]
        event  == [build_event(u) EXCEPT
                      !.linkingObjectIdentifier = Append(@, LinkingObjectIdentifier(obj))]
        linked == [obj EXCEPT
                      !.linkingEventIdentifier = Append(@, LinkingEventIdentifier(event))]
    IN  [objects |-> [rec.objects EXCEPT ![1] = linked],
         events  |-> Append(rec.events, event)]

(***************************************************************************)
(* MongoStorageBackend key escaping.                                       *)
(***************************************************************************)
\* Characters of the key strings fed to escape / unescape.
KeyChars == {"~", ".", "$", "p", "d", "a"}

\* Python's str.replace(old, new): left to right, non-overlapping.
RECURSIVE Replace(_, _, _)
Replace(s, old, new) ==
    IF Len(s) < Len(old) THEN s
    ELSE IF SubSeq(s, 1, Len(old)) = old
         THEN new \o Replace(SubSeq(s, Len(old) + 1, Len(s)), old, new)
         ELSE <<Head(s)>> \o Replace(Tail(s), old, new)

\* MongoStorageBackend.escape
escape(text) ==
    LET a == Replace(text, <<"~">>, <<"~", "~">>)
        b == Replace(a, <<".">>, <<"~", "p">>)
        c == Replace(b, <<"$">>, <<"~", "d">>)
    IN  c

\* MongoStorageBackend.unescape
unescape(text) ==
    LET a == Replace(text, <<"~", "d">>, <<"$">>)
        b == Replace(a, <<"~", "p">>, <<".">>)
        c == Replace(b, <<"~", "~">>, <<"~">>)
    IN  c

\* JSON-like values: a dict is an insertion-ordered list of <<key, value>>
\* items, a list is a sequence of values, anything else is a leaf.
Dict(items) == [t |-> "dict", items |-> items]
List(items) == [t |-> "list", items |-> items]
Leaf(v)     == [t |-> "leaf", items |-> <<v>>]

\* new[k] = v on a dict's item list
RECURSIVE DictSet(_, _, _)
DictSet(items, k, v) ==
    IF items = <<>> THEN << <<k, v>> >>
    ELSE IF Head(items)[1] = k
         THEN << <<k, v>> >> \o Tail(items)
         ELSE <<Head(items)>> \o DictSet(Tail(items), k, v)

\* d[k] on a dict's item list; a missing key yields <<>>
RECURSIVE DictGet(_, _)
DictGet(items, k) ==
    IF items = <<>> THEN <<>>
    ELSE IF Head(items)[1] = k THEN <<Head(items)[2]>> ELSE DictGet(Tail(items), k)

\* the convert argument of change_keys
Convert(convert, k) == IF convert = "escape" THEN escape(k) ELSE unescape(k)

\* MongoStorageBackend.change_keys
RECURSIVE change_keys(_, _)
RECURSIVE ChangeItems(_, _, _)
RECURSIVE ChangeList(_, _)
change_keys(obj, convert) ==
    IF obj.t = "dict" THEN Dict(ChangeItems(obj.items, convert, <<>>))
    ELSE IF obj.t = "list" THEN List(ChangeList(obj.items, convert))
    ELSE obj

ChangeItems(items, convert, new) ==
    IF items = <<>> THEN new
    ELSE ChangeItems(Tail(items), convert,
                     DictSet(new, Convert(convert, Head(items)[1]),
                             change_keys(Head(items)[2], convert)))

ChangeList(items, convert) ==
    IF items = <<>> THEN <<>>
    ELSE <<change_keys(Head(items), convert)>> \o ChangeList(Tail(items), convert)

\* MongoStorageBackend.mongo_escape
mongo_escape(some_dict) == change_keys(some_dict, "escape")

\* MongoStorageBackend.mongo_unescape
mongo_unescape(some_dict) == change_keys(some_dict, "unescape")

(***************************************************************************)
(* xmljson.GData: the record's XML tree as nested dicts.  Element keys are *)
(* namespace-qualified tags (the namespace URL holds dots), element text   *)
(* sits under the key "$t".                                                *)
(***************************************************************************)
PremisTag == <<"n", ".", "p">>
ObjectTag == <<"n", ".", "o">>
EventTag  == <<"n", ".", "e">>
TextKey   == <<"$", "t">>

Element(node) == Dict(<< <<TextKey, Leaf(node)>> >>)

\* GData.data(premis.to_tree().getroot())
GDataData(rec) ==
    Dict(<< <<PremisTag,
              Dict(<< <<ObjectTag, List([k \in 1..Len(rec.objects) |-> Element(rec.objects[k])])>>,
                      <<EventTag,  List([k \in 1..Len(rec.events)  |-> Element(rec.events[k])])>> >>)>> >>)

\* the nodes of the elements listed under tag in a dict; none when the tag is missing
Nodes(dict, tag) ==
    LET found == DictGet(dict.items, tag)
    IN  IF found = <<>> THEN <<>>
        ELSE [k \in 1..Len(found[1].items) |->
                 DictGet(found[1].items[k].items, TextKey)[1].items[1]]

\* PremisRecord(frompath=...) of GData.etree(json)[0]
GDataEtree(json) ==
    LET root == DictGet(json.items, PremisTag)
    IN  IF root = <<>> THEN NoRecord
        ELSE [objects |-> Nodes(root[1], ObjectTag), events |-> Nodes(root[1], EventTag)]

(***************************************************************************)
(* BLUEPRINT.config as handle_configs sees it.                             *)
(***************************************************************************)
\* the STORAGE_BACKEND names handle_configs knows, as character strings
MongoName      == <<"m", "o", "n", "g", "o">>
FilesystemName == <<"f", "i", "l", "e", "s", "y", "s", "t", "e", "m">>
MixName        == <<"m", "i", "x">>
NoerrorName    == <<"n", "o", "e", "r", "r", "o", "r">>

\* the settings the backend constructors read with bp.config[...]
RequiredSettings(name) ==
    IF name = MongoName THEN {"LTS_MONGO_HOST"}
    ELSE IF name = FilesystemName THEN {"LTS_DIR", "PREMIS_DIR"}
    ELSE IF name = MixName THEN {"LTS_DIR", "PREMIS_MONGO_HOST"}
    ELSE {}

AllSettings == {"LTS_MONGO_HOST", "LTS_DIR", "PREMIS_DIR", "PREMIS_MONGO_HOST"}

\* the class init_mongo / init_filesystem / init_mix instantiates
StorageClass(name) ==
    IF name = MongoName THEN "MongoStorageBackend"
    ELSE IF name = FilesystemName THEN "FileSystemStorageBackend"
    ELSE IF name = MixName THEN "FileContentMongoPremisStorageBackend"
    ELSE "none"

\* BLUEPRINT.config = {'BUFF': 1024*16}
DefaultBuff == 16384

\* the configuration of a registered blueprint that runs backend b, with no
\* MAX_LIMIT set
RegisteredConfig(b) ==
    [STORAGE_BACKEND |-> IF b = "mongo" THEN MongoName
                         ELSE IF b = "filesystem" THEN FilesystemName ELSE MixName,
     settings        |-> AllSettings,
     MAX_LIMIT       |-> <<>>,
     BUFF            |-> DefaultBuff,
     storage         |-> IF b = "mongo" THEN "MongoStorageBackend"
                         ELSE IF b = "filesystem" THEN "FileSystemStorageBackend"
                         ELSE "FileContentMongoPremisStorageBackend",
     state           |-> "registered"]

\* str.lower() on ASCII text
UpperCase == <<"A", "B", "C", "D", "E", "F", "G", "H", "I", "J", "K", "L", "M",
               "N", "O", "P", "Q", "R", "S", "T", "U", "V", "W", "X", "Y", "Z">>
LowerCase == <<"a", "b", "c", "d", "e", "f", "g", "h", "i", "j", "k", "l", "m",
               "n", "o", "p", "q", "r", "s", "t", "u", "v", "w", "x", "y", "z">>

LowerChar(c) ==
    IF \E k \in 1..Len(UpperCase) : UpperCase[k] = c
    THEN LowerCase[CHOOSE k \in 1..Len(UpperCase) : UpperCase[k] = c]
    ELSE c

\* a comparison that minds the case
LowerKept(s) == s

Lower(s) == [k \in 1..Len(s) |-> LowerChar(s[k])]

\* the keys of supported_backends
supported_backends == {MongoName, FilesystemName, MixName, NoerrorName}

\* STORAGE_BACKEND values an application may configure, by the backend they
\* spell
MongoChoices      == {MongoName, <<"M", "O", "N", "G", "O">>, <<"M", "o", "n", "g", "o">>}
FilesystemChoices == {FilesystemName, <<"F", "i", "l", "e", "S", "y", "s", "t", "e", "m">>}
MixChoices        == {MixName, <<"M", "I", "X">>}
NoerrorChoices    == {NoerrorName, <<"N", "o", "E", "r", "r", "o", "r">>}
OtherChoices      == {<<>>, <<"s", "3">>, <<"s", "w", "i", "f", "t">>, <<"m", "o", "n", "g", "o", "d", "b">>, <<"m", "i", "x", " ">>}
BackendChoices ==
    MongoChoices \cup FilesystemChoices \cup MixChoices \cup NoerrorChoices \cup OtherChoices

(***************************************************************************)
(* State.                                                                  *)
(***************************************************************************)
VARIABLES
    backend,        \* BLUEPRINT.config['STORAGE_BACKEND'], lower case
    content_store,  \* identifier -> bytes: GridFS files / <lts_root>/.../arf/content.file
    premis_store,   \* identifier -> stored PREMIS: premis_db.records / .../arf/premis.xml
    pc,             \* per worker: where its AddMaterialSuite.post stands
    args,           \* per worker: the parsed request, args['content'] and args['premis']
    identifier,     \* per worker: post's local identifier
    premis_rec,     \* per worker: post's local premis_rec
    result,         \* per worker: the response or the exception that ended the request
    uuid,           \* the uuid4 values handed out so far
    resp,           \* the last response of a read endpoint
    keys,           \* the escape / unescape exercise: its stage, its input, its value
    config          \* BLUEPRINT.config and where handle_configs stands

vars == <<backend, content_store, premis_store, pc, args, identifier, premis_rec,
          result, uuid, resp, keys, config>>

ingestVars == <<backend, content_store, premis_store, pc, args, identifier, premis_rec,
                result, uuid, resp, config>>

Backends == {"mongo", "filesystem", "mix"}

\* which strategy serves content and which serves PREMIS in each backend
ContentInGridFS  == backend = "mongo"
PremisInMongo    == backend \in {"mongo", "mix"}

EmptyStore == [k \in {} |-> <<>>]

\* the store with value v under key id
Put(store, id, v) == [k \in DOMAIN store \cup {id} |-> IF k = id THEN v ELSE store[k]]

NoArgs == [content |-> <<>>, premis |-> NoRecord]
NoResp == [endpoint |-> "none", id |-> <<>>, body |-> "none"]
NoKeys == [pc |-> "off", some_dict |-> Dict(<<>>), value |-> Dict(<<>>)]

Init ==
    /\ backend \in Backends
    /\ content_store = EmptyStore
    /\ premis_store = EmptyStore
    /\ pc = [p \in Procs |-> "idle"]
    /\ args = [p \in Procs |-> NoArgs]
    /\ identifier = [p \in Procs |-> <<>>]
    /\ premis_rec = [p \in Procs |-> NoRecord]
    /\ result = [p \in Procs |-> "none"]
    /\ uuid = 0
    /\ resp = NoResp
    /\ keys = NoKeys
    /\ config = RegisteredConfig(backend)

(***************************************************************************)
(* Storage backend methods.                                                *)
(***************************************************************************)
\* check_materialsuite_content_exists: GridFS find_one / Path.is_file
check_materialsuite_content_exists(id) == id \in DOMAIN content_store

\* check_materialsuite_premis_exists: premis_db.find_one / Path.is_file
check_materialsuite_premis_exists(id) == id \in DOMAIN premis_store

\* IStorageBackend.check_materialsuite_exists, overridden by MongoStorageBackend
check_materialsuite_exists(id) ==
    IF backend = "mongo"
    THEN check_materialsuite_premis_exists(id)
    ELSE check_materialsuite_content_exists(id) \/ check_materialsuite_premis_exists(id)

\* what set_materialsuite_premis stores: the escaped JSON document in Mongo,
\* the serialized record in the file system
PremisDocument(id, premis) ==
    IF PremisInMongo
    THEN [_id |-> id, premis_json |-> mongo_escape(GDataData(premis))]
    ELSE [_id |-> id, premis_xml |-> premis]

\* the PremisRecord get_materialsuite_premis builds from a stored entry
PremisOfEntry(entry) ==
    IF PremisInMongo
    THEN GDataEtree(mongo_unescape(entry.premis_json))
    ELSE entry.premis_xml

\* get_materialsuite_premis for an identifier that has a stored record
get_materialsuite_premis(id) == PremisOfEntry(premis_store[id])

\* get_materialsuite_content for an identifier that has stored content
get_materialsuite_content(id) == content_store[id]

(***************************************************************************)
(* AddMaterialSuite.post, one ingest request per worker.                   *)
(***************************************************************************)
\* a validation that forgets the final strip("._") of the sanitized form
IdentifierIsSecureUnstripped(id) == id = AsciiStrip(SplitJoin(ReplaceSep(id), <<>>, FALSE))

\* line 597: identifier != secure_filename(identifier) aborts the request
IdentifierIsSecure(id) == id = secure_filename(id)

\* a worker's request ends with an exception or an abort
Fail(p, error) ==
    /\ pc' = [pc EXCEPT ![p] = "failed"]
    /\ result' = [result EXCEPT ![p] = error]

\* a post that takes the identifier of the record's last object
PostLastObject(p) ==
    /\ pc[p] = "idle"
    /\ \E c \in Contents, i \in Identifiers :
         \E r \in PremisInputs(i) :
            /\ args' = [args EXCEPT ![p] = [content |-> c, premis |-> r]]
            /\ premis_rec' = [premis_rec EXCEPT ![p] = r]
            /\ identifier' = [identifier EXCEPT
                                 ![p] = r.objects[Len(r.objects)].objectIdentifier[1]]
    /\ IF identifier'[p] = secure_filename(identifier'[p])
       THEN /\ pc' = [pc EXCEPT ![p] = "set_content"]
            /\ UNCHANGED result
       ELSE /\ pc' = [pc EXCEPT ![p] = "failed"]
            /\ result' = [result EXCEPT ![p] = "abort500"]
    /\ UNCHANGED <<backend, content_store, premis_store, uuid, resp, keys, config>>

\* lines 567-603: parse the arguments, read the PREMIS, take the identifier of
\* the first object, abort(500) on an insecure identifier
Post(p) ==
    /\ pc[p] = "idle"
    /\ \E c \in Contents, i \in Identifiers :
         \E r \in PremisInputs(i) :
            /\ args' = [args EXCEPT ![p] = [content |-> c, premis |-> r]]
            /\ premis_rec' = [premis_rec EXCEPT ![p] = r]
            /\ identifier' = [identifier EXCEPT ![p] = r.objects[1].objectIdentifier[1]]
    /\ IF IdentifierIsSecure(identifier'[p])
       THEN /\ pc' = [pc EXCEPT ![p] = "set_content"]
            /\ UNCHANGED result
       ELSE Fail(p, "abort500")
    /\ UNCHANGED <<backend, content_store, premis_store, uuid, resp, keys, config>>

\* a set_materialsuite_content that skips the save for existing content and
\* lets the ingest go on instead of raising
SetContentCheckQuiet(p) ==
    /\ pc[p] = "set_content"
    /\ pc' = [pc EXCEPT ![p] = IF check_materialsuite_content_exists(identifier[p])
                               THEN "add_ingest_event" ELSE "content_save"]
    /\ UNCHANGED <<backend, content_store, premis_store, args, identifier, premis_rec,
                   result, uuid, resp, keys, config>>

\* a set_materialsuite_content that never looks for existing content
SetContentCheckMissing(p) ==
    /\ pc[p] = "set_content"
    /\ pc' = [pc EXCEPT ![p] = "content_save"]
    /\ UNCHANGED <<backend, content_store, premis_store, args, identifier, premis_rec,
                   result, uuid, resp, keys, config>>

\* set_materialsuite_content, first half: the existence check and its raise
\* (RuntimeError in GridFS, ValueError in the file system)
SetContentCheck(p) ==
    /\ pc[p] = "set_content"
    /\ IF check_materialsuite_content_exists(identifier[p])
       THEN Fail(p, IF ContentInGridFS THEN "RuntimeError" ELSE "ValueError")
       ELSE /\ pc' = [pc EXCEPT ![p] = "content_save"]
            /\ UNCHANGED result
    /\ UNCHANGED <<backend, content_store, premis_store, args, identifier, premis_rec,
                   uuid, resp, keys, config>>

\* a content.save that returns without having written anything
SetContentSaveLost(p) ==
    /\ pc[p] = "content_save"
    /\ pc' = [pc EXCEPT ![p] = "add_ingest_event"]
    /\ UNCHANGED <<backend, content_store, premis_store, args, identifier, premis_rec,
                   result, uuid, resp, keys, config>>

\* set_materialsuite_content, second half: content.save.  GridFS creates the
\* file under a unique _id and raises FileExists when it is taken; the file
\* system opens the path for writing and replaces what is there.
SetContentSave(p) ==
    /\ pc[p] = "content_save"
    /\ IF ContentInGridFS /\ check_materialsuite_content_exists(identifier[p])
       THEN /\ Fail(p, "FileExists")
            /\ UNCHANGED content_store
       ELSE /\ content_store' = Put(content_store, identifier[p], args[p].content)
            /\ pc' = [pc EXCEPT ![p] = "add_ingest_event"]
            /\ UNCHANGED result
    /\ UNCHANGED <<backend, premis_store, args, identifier, premis_rec, uuid, resp, keys, config>>

\* line 609: add_ingest_event(premis_rec), with a fresh uuid4
AddIngestEvent(p) ==
    /\ pc[p] = "add_ingest_event"
    /\ uuid' = uuid + 1
    /\ premis_rec' = [premis_rec EXCEPT ![p] = add_ingest_event(@, uuid')]
    /\ pc' = [pc EXCEPT ![p] = "set_premis"]
    /\ UNCHANGED <<backend, content_store, premis_store, args, identifier, result, resp, keys, config>>

\* lines 614-616: set_materialsuite_premis and the "created" response.
\* Mongo's insert_one raises DuplicateKeyError on a taken _id; the file system
\* rewrites premis.xml.
SetPremis(p) ==
    /\ pc[p] = "set_premis"
    /\ IF PremisInMongo /\ check_materialsuite_premis_exists(identifier[p])
       THEN /\ Fail(p, "DuplicateKeyError")
            /\ UNCHANGED premis_store
       ELSE /\ premis_store' = Put(premis_store, identifier[p],
                                   PremisDocument(identifier[p], premis_rec[p]))
            /\ pc' = [pc EXCEPT ![p] = "done"]
            /\ result' = [result EXCEPT ![p] = "created"]
    /\ UNCHANGED <<backend, content_store, args, identifier, premis_rec, uuid, resp, keys, config>>

(***************************************************************************)
(* Read endpoints.                                                         *)
(***************************************************************************)
\* the route converter <string:id> takes any text without a slash
RouteIds == {i \in Identifiers : \A k \in 1..Len(i) : i[k] # "/"}

\* MaterialSuite.get
MaterialSuiteGet(id) ==
    /\ resp' = [endpoint |-> "MaterialSuite", id |-> id,
                body |-> IF check_materialsuite_exists(id)
                         THEN "links" ELSE "No such materialsuite"]
    /\ UNCHANGED <<backend, content_store, premis_store, pc, args, identifier, premis_rec,
                   result, uuid, keys, config>>

\* AddMaterialSuite.post served without another request in between: the
\* identifier check, set_materialsuite_content, add_ingest_event and
\* set_materialsuite_premis in one step.  An unhandled exception and
\* abort(500) are both answered with status 500.
AddMaterialSuitePost ==
    /\ \E c \in Contents, i \in Identifiers :
         \E r \in PremisInputs(i) :
            LET id  == r.objects[1].objectIdentifier[1]
                rec == add_ingest_event(r, uuid + 1)
                answer(body) == [endpoint |-> "AddMaterialSuite", id |-> id, body |-> body]
            IN  IF ~IdentifierIsSecure(id) \/ check_materialsuite_content_exists(id)
                THEN /\ resp' = answer("InternalServerError")
                     /\ UNCHANGED <<content_store, premis_store, uuid>>
                ELSE /\ content_store' = Put(content_store, id, c)
                     /\ uuid' = uuid + 1
                     /\ IF PremisInMongo /\ check_materialsuite_premis_exists(id)
                        THEN /\ resp' = answer("InternalServerError")
                             /\ UNCHANGED premis_store
                        ELSE /\ premis_store' = Put(premis_store, id, PremisDocument(id, rec))
                             /\ resp' = answer("created")
    /\ UNCHANGED <<backend, pc, args, identifier, premis_rec, result, keys, config>>

\* MaterialSuiteContent.get.  GridFS find_one gives None for an absent
\* identifier and the handler then returns nothing, which is answered with
\* status 200 and a null body; open() of an absent content.file raises and is
\* answered with status 500.
MaterialSuiteContentGet(id) ==
    /\ resp' = [endpoint |-> "MaterialSuiteContent", id |-> id,
                body |-> IF check_materialsuite_content_exists(id) THEN "content"
                         ELSE IF ContentInGridFS THEN "null"
                         ELSE "InternalServerError"]
    /\ UNCHANGED <<backend, content_store, premis_store, pc, args, identifier, premis_rec,
                   result, uuid, keys, config>>

\* MaterialSuitePREMIS.get: abort(404) without a stored record
MaterialSuitePREMISGet(id) ==
    /\ resp' = [endpoint |-> "MaterialSuitePREMIS", id |-> id,
                body |-> IF check_materialsuite_premis_exists(id) THEN "premis"
                         ELSE "NotFound"]
    /\ UNCHANGED <<backend, content_store, premis_store, pc, args, identifier, premis_rec,
                   result, uuid, keys, config>>

\* MaterialSuitePREMIS.put: the body of the handler is pass
MaterialSuitePREMISPut(id) ==
    /\ \E payload \in PremisInputs(id) :
          resp' = [endpoint |-> "MaterialSuitePREMIS.put", id |-> id, body |-> "null",
                   payload |-> payload]
    /\ UNCHANGED <<backend, content_store, premis_store, pc, args, identifier, premis_rec,
                   result, uuid, keys, config>>

\* MaterialSuitePREMISJson.get: get_materialsuite_premis_json applies to_tree
\* to what get_materialsuite_premis gives, which without a stored record is
\* None in Mongo and an exception of PremisRecord(frompath=...) in the file
\* system; either way the request is answered with status 500.
MaterialSuitePREMISJsonGet(id) ==
    /\ resp' = [endpoint |-> "MaterialSuitePREMISJson", id |-> id,
                body |-> IF check_materialsuite_premis_exists(id) THEN "premis_json"
                         ELSE "InternalServerError"]
    /\ UNCHANGED <<backend, content_store, premis_store, pc, args, identifier, premis_rec,
                   result, uuid, keys, config>>

\* a diff_materialsuite_premis that stores the patch as the record
DiffMaterialsuitePremisApplied(id) ==
    /\ \E diff \in PremisInputs(id) :
          /\ premis_store' = Put(premis_store, id, PremisDocument(id, diff))
          /\ resp' = [endpoint |-> "diff_materialsuite_premis", id |-> id,
                      body |-> "patched", diff |-> diff]
    /\ UNCHANGED <<backend, content_store, pc, args, identifier, premis_rec,
                   result, uuid, keys, config>>

\* diff_materialsuite_premis(id, diff), the same in every backend
DiffMaterialsuitePremis(id) ==
    /\ \E diff \in PremisInputs(id) :
          resp' = [endpoint |-> "diff_materialsuite_premis", id |-> id,
                   body |-> "NotImplementedError", diff |-> diff]
    /\ UNCHANGED <<backend, content_store, premis_store, pc, args, identifier, premis_rec,
                   result, uuid, keys, config>>

\* The bytes content is made of in the streaming exercise: line feed,
\* carriage return, a letter, and a byte that no UTF-8 text contains.
Bytes == {10, 13, 65, 255}

\* open(path) without a mode opens for reading text: the bytes are decoded
\* (UTF-8 here; bytes below 128 stand for themselves) ...
Decodable(bytes) == \A k \in 1..Len(bytes) : bytes[k] < 128

\* ... and, newline being None, "\r\n" and "\r" are read as "\n"
RECURSIVE UniversalNewlines(_)
UniversalNewlines(s) ==
    IF s = <<>> THEN <<>>
    ELSE IF s[1] = 13
         THEN <<10>> \o UniversalNewlines(IF Len(s) >= 2 /\ s[2] = 10
                                          THEN SubSeq(s, 3, Len(s)) ELSE Tail(s))
         ELSE <<s[1]>> \o UniversalNewlines(Tail(s))

\* what successive e.read(n) calls deliver in all: the bytes of a GridOut
\* (Mongo), the text of a file opened by FileSystemStorageBackend
\* .get_materialsuite_content (line 288), which the response encodes again
Readable(id) ==
    IF ContentInGridFS THEN get_materialsuite_content(id)
    ELSE UniversalNewlines(get_materialsuite_content(id))

\* e.read(size) at position pos: at most size units, nothing at the end
Read(stream, pos, size) ==
    SubSeq(stream, pos + 1, IF pos + size < Len(stream) THEN pos + size ELSE Len(stream))

\* MaterialSuiteContent.get.generate, one turn of its loop: read BUFF, yield
\* what was read, leave the loop when it was empty.  The first turn follows
\* the handler's Response(...).  In text mode the first read decodes the
\* whole of a short file and raises UnicodeDecodeError on an undecodable byte.
Generate ==
    /\ \/ resp.endpoint = "MaterialSuiteContent" /\ resp.body = "content"
       \/ resp.endpoint = "generate" /\ resp.body = "streaming"
    /\ LET first  == resp.endpoint = "MaterialSuiteContent"
           pos    == IF first THEN 0 ELSE resp.pos
           chunks == IF first THEN <<>> ELSE resp.chunks
           data   == Read(Readable(resp.id), pos, config.BUFF)
       IN  IF ~ContentInGridFS /\ ~Decodable(get_materialsuite_content(resp.id))
           THEN resp' = [endpoint |-> "generate", id |-> resp.id,
                         body |-> "UnicodeDecodeError", chunks |-> chunks, pos |-> pos]
           ELSE resp' = [endpoint |-> "generate", id |-> resp.id,
                         body |-> IF data = <<>> THEN "done" ELSE "streaming",
                         chunks |-> Append(chunks, data), pos |-> pos + Len(data)]
    /\ UNCHANGED <<backend, content_store, premis_store, pc, args, identifier, premis_rec,
                   result, uuid, keys, config>>

\* a content request, taken when the response before it has been delivered
StreamGet(id) ==
    /\ resp.body \notin {"content", "streaming"}
    /\ MaterialSuiteContentGet(id)

\* the characters of the identifiers in ascending code point order, the order
\* in which Mongo compares strings
Collation == <<".", "/", "a", "b", "c">>

CharCode(c) == CHOOSE k \in 1..Len(Collation) : Collation[k] = c

RECURSIVE LexLess(_, _)
LexLess(a, b) ==
    IF a = <<>> THEN b # <<>>
    ELSE IF b = <<>> THEN FALSE
    ELSE IF a[1] = b[1] THEN LexLess(Tail(a), Tail(b))
    ELSE CharCode(a[1]) < CharCode(b[1])

\* sort('_id', ASCENDING)
RECURSIVE SortIds(_)
SortIds(S) ==
    IF S = {} THEN <<>>
    ELSE LET m == CHOOSE x \in S : \A y \in S \ {x} : LexLess(x, y)
         IN  <<m>> \o SortIds(S \ {m})

\* cursor.skip(offset)
Skip(seq, offset) == SubSeq(seq, offset + 1, Len(seq))

\* cursor.limit(limit): a limit of 0 is no limit
Limit(seq, limit) ==
    IF limit = 0 \/ limit >= Len(seq) THEN seq ELSE SubSeq(seq, 1, limit)

\* get_materialsuite_id_list as Root.get calls it, with (offset, limit).  Mongo
\* (lines 185-186) lists the _id of the PREMIS collection; the filesystem
\* method (lines 281-282), which mix inherits, takes no offset and no limit
\* (TypeError on the call) and its body raises NotImplementedError.
get_materialsuite_id_list(offset, limit) ==
    IF backend = "mongo"
    THEN [ok |-> TRUE, ids |-> Limit(Skip(SortIds(DOMAIN premis_store), offset), limit)]
    ELSE [ok |-> FALSE, ids |-> <<>>]

\* BLUEPRINT.config.get("MAX_LIMIT", 1000)
DefaultMaxLimit == 1000
MaxLimit == IF config.MAX_LIMIT = <<>> THEN DefaultMaxLimit ELSE config.MAX_LIMIT[1]

\* a check_limit that returns its argument
check_limit_unchecked(x) == x

check_limit(x) == IF x > MaxLimit THEN MaxLimit ELSE x

\* the offset and limit arguments of a list request: absent (<<>>) or a number
MaxOffset == 2
SmallMaxLimit == 2
DefaultLimit == 1000
OffsetArgs == {<<>>} \cup {<<n>> : n \in 0..MaxOffset}
LimitArgs == {<<>>} \cup {<<n>> : n \in 0..(SmallMaxLimit + 1)} \cup {<<DefaultMaxLimit + 1>>}

\* Root.get: an exception of the backend call is answered with status 500
RootGet ==
    /\ \E offset \in OffsetArgs, limit \in LimitArgs :
          LET o == IF offset = <<>> THEN 0 ELSE offset[1]
              l == check_limit(IF limit = <<>> THEN DefaultLimit ELSE limit[1])
              r == get_materialsuite_id_list(o, l)
          IN  resp' = [endpoint |-> "Root", id |-> <<>>,
                       body |-> IF r.ok THEN "materialsuites" ELSE "InternalServerError",
                       materialsuites |-> r.ids, limit |-> l, offset |-> o,
                       requested |-> limit]
    /\ UNCHANGED <<backend, content_store, premis_store, pc, args, identifier, premis_rec,
                   result, uuid, keys, config>>

(***************************************************************************)
(* Spec: the workers serve their ingest requests concurrently; any         *)
(* interleaving of their store accesses is a behaviour.                    *)
(***************************************************************************)
Next ==
    \/ \E p \in Procs : Post(p)
    \/ \E p \in Procs : SetContentCheck(p)
    \/ \E p \in Procs : SetContentSave(p)
    \/ \E p \in Procs : AddIngestEvent(p)
    \/ \E p \in Procs : SetPremis(p)

Spec == Init /\ [][Next]_vars

(***************************************************************************)
(* SpecSeq: the ingest requests are served one after the other (a request  *)
(* starts only when no other is in flight), while read requests arrive at  *)
(* any moment, also between the steps of the ingest in flight.             *)
(***************************************************************************)
InFlight(p) == pc[p] \notin {"idle", "done", "failed"}

SeqPost(p) ==
    /\ \A q \in Procs : ~InFlight(q)
    /\ Post(p)

NextSeq ==
    \/ \E p \in Procs : SeqPost(p)
    \/ \E p \in Procs : SetContentCheck(p)
    \/ \E p \in Procs : SetContentSave(p)
    \/ \E p \in Procs : AddIngestEvent(p)
    \/ \E p \in Procs : SetPremis(p)
    \/ \E id \in RouteIds : MaterialSuiteGet(id)

SpecSeq == Init /\ [][NextSeq]_vars

(***************************************************************************)
(* SpecList: ingest requests and list requests are served one after the    *)
(* other, each as a whole; the application may have configured a MAX_LIMIT *)
(* of its own.                                                             *)
(***************************************************************************)
InitList ==
    /\ backend \in Backends
    /\ content_store = EmptyStore
    /\ premis_store = EmptyStore
    /\ pc = [p \in Procs |-> "idle"]
    /\ args = [p \in Procs |-> NoArgs]
    /\ identifier = [p \in Procs |-> <<>>]
    /\ premis_rec = [p \in Procs |-> NoRecord]
    /\ result = [p \in Procs |-> "none"]
    /\ uuid = 0
    /\ resp = NoResp
    /\ keys = NoKeys
    /\ \E m \in {<<>>, <<SmallMaxLimit>>} :
          config = [RegisteredConfig(backend) EXCEPT !.MAX_LIMIT = m]

NextList ==
    \/ AddMaterialSuitePost
    \/ RootGet

SpecList == InitList /\ [][NextList]_vars

(***************************************************************************)
(* SpecApi: ingest requests, the reads of content and metadata, the update *)
(* of metadata and the backend's diff are served one after the other, each *)
(* as a whole.                                                             *)
(***************************************************************************)
NextApi ==
    \/ AddMaterialSuitePost
    \/ \E id \in RouteIds : MaterialSuiteContentGet(id)
    \/ \E id \in RouteIds : MaterialSuitePREMISGet(id)
    \/ \E id \in RouteIds : MaterialSuitePREMISPut(id)
    \/ \E id \in RouteIds : MaterialSuitePREMISJsonGet(id)
    \/ \E id \in RouteIds : DiffMaterialsuitePremis(id)

SpecApi == Init /\ [][NextApi]_vars

(***************************************************************************)
(* SpecConfig: the registration of the blueprint on an application whose   *)
(* configuration names a storage backend and has some of the settings.     *)
(***************************************************************************)
InitConfig ==
    /\ backend = "none"
    /\ content_store = EmptyStore
    /\ premis_store = EmptyStore
    /\ pc = [p \in Procs |-> "idle"]
    /\ args = [p \in Procs |-> NoArgs]
    /\ identifier = [p \in Procs |-> <<>>]
    /\ premis_rec = [p \in Procs |-> NoRecord]
    /\ result = [p \in Procs |-> "none"]
    /\ uuid = 0
    /\ resp = NoResp
    /\ keys = NoKeys
    /\ \E choice \in BackendChoices, settings \in SUBSET AllSettings :
          config = [STORAGE_BACKEND |-> choice, settings |-> settings, MAX_LIMIT |-> <<>>,
                    BUFF |-> DefaultBuff, storage |-> "none", state |-> "registering"]

\* handle_configs, lines 653-670: bp.config[...] of a setting that is not
\* configured raises KeyError before config['storage'] is assigned
HandleConfigs ==
    /\ config.state = "registering"
    /\ LET storage_choice == Lower(config.STORAGE_BACKEND)
       IN  IF storage_choice \notin supported_backends
           THEN config' = [config EXCEPT !.state = "RuntimeError"]
           ELSE IF storage_choice = NoerrorName
           THEN config' = [config EXCEPT !.state = "registered"]
           ELSE IF RequiredSettings(storage_choice) \subseteq config.settings
           THEN config' = [config EXCEPT !.storage = StorageClass(storage_choice),
                                         !.state = "registered"]
           ELSE config' = [config EXCEPT !.state = "KeyError"]
    /\ UNCHANGED <<backend, content_store, premis_store, pc, args, identifier, premis_rec,
                   result, uuid, resp, keys>>

NextConfig == HandleConfigs

SpecConfig == InitConfig /\ [][NextConfig]_vars

(***************************************************************************)
(* SpecStream: content requests on a corpus of one MaterialSuite whose     *)
(* content is any short byte string, with any small BUFF configured; the   *)
(* generator of a response, once started, is run to its end.               *)
(***************************************************************************)
MaxContentLen == 3
MaxBuff == 2

InitStream ==
    /\ backend \in Backends
    /\ \E content \in SeqsUpTo(Bytes, MaxContentLen) :
          content_store = Put(EmptyStore, <<"a">>, content)
    /\ premis_store = Put(EmptyStore, <<"a">>,
                          PremisDocument(<<"a">>,
                              add_ingest_event([objects |-> <<PremisObject(<<"a">>)>>,
                                                events |-> <<>>], 1)))
    /\ pc = [p \in Procs |-> "idle"]
    /\ args = [p \in Procs |-> NoArgs]
    /\ identifier = [p \in Procs |-> <<>>]
    /\ premis_rec = [p \in Procs |-> NoRecord]
    /\ result = [p \in Procs |-> "none"]
    /\ uuid = 1
    /\ resp = NoResp
    /\ keys = NoKeys
    /\ \E buff \in 1..MaxBuff :
          config = [RegisteredConfig(backend) EXCEPT !.BUFF = buff]

NextStream ==
    \/ \E id \in RouteIds : StreamGet(id)
    \/ Generate

SpecStream == InitStream /\ [][NextStream]_vars /\ WF_vars(Generate)

(***************************************************************************)
(* The escape / unescape exercise: mongo_escape then mongo_unescape on     *)
(* nested mappings with arbitrary key strings.                             *)
(***************************************************************************)
KeyStrings == SeqsUpTo(KeyChars, MaxKeyLen)

\* a two-level mapping with a list and leaf values
TestDict(k1, k2) ==
    Dict(DictSet(<< <<k1, Dict(<< <<k2, Leaf(k1)>> >>)>> >>, k2, List(<<Leaf(k2)>>)))

InitEscape ==
    /\ backend = "mongo"
    /\ content_store = EmptyStore
    /\ premis_store = EmptyStore
    /\ pc = [p \in Procs |-> "idle"]
    /\ args = [p \in Procs |-> NoArgs]
    /\ identifier = [p \in Procs |-> <<>>]
    /\ premis_rec = [p \in Procs |-> NoRecord]
    /\ result = [p \in Procs |-> "none"]
    /\ uuid = 0
    /\ resp = NoResp
    /\ config = RegisteredConfig(backend)
    /\ \E k1 \in KeyStrings, k2 \in KeyStrings :
          keys = [pc |-> "input", some_dict |-> TestDict(k1, k2), value |-> TestDict(k1, k2)]

MongoEscape ==
    /\ keys.pc = "input"
    /\ keys' = [keys EXCEPT !.pc = "escaped", !.value = mongo_escape(keys.some_dict)]
    /\ UNCHANGED ingestVars

MongoUnescape ==
    /\ keys.pc = "escaped"
    /\ keys' = [keys EXCEPT !.pc = "unescaped", !.value = mongo_unescape(keys.value)]
    /\ UNCHANGED ingestVars

NextEscape == MongoEscape \/ MongoUnescape

SpecEscape == InitEscape /\ [][NextEscape]_vars

(***************************************************************************)
(* Properties.                                                             *)
(***************************************************************************)
\* worker p takes the step
Stepped(p) == pc'[p] # pc[p]

StoresUnchanged == content_store' = content_store /\ premis_store' = premis_store

\* the exceptions set_materialsuite_content raises for existing content
AlreadyExistsErrors == {"RuntimeError", "ValueError"}

Range(seq) == {seq[k] : k \in 1..Len(seq)}

\* C1: an ingest whose identifier differs from its sanitized form is rejected
\* with an error and writes nothing: it never enters set_materialsuite_content
\* or set_materialsuite_premis and its step leaves both stores as they were;
\* conversely only workers with sanitize(i) = i change a store, and every
\* stored key equals its sanitized form.
C1_InsecureIdentifierRejected ==
    /\ [](\A p \in Procs :
            identifier[p] # secure_filename(identifier[p])
                => /\ pc[p] = "failed"
                   /\ result[p] = "abort500"
                   /\ premis_rec[p] = args[p].premis)
    /\ [](\A i \in DOMAIN content_store \cup DOMAIN premis_store : i = secure_filename(i))
    /\ [][\A p \in Procs :
            /\ (Stepped(p) /\ identifier'[p] # secure_filename(identifier'[p]))
                   => StoresUnchanged
            /\ (Stepped(p) /\ ~StoresUnchanged)
                   => identifier[p] = secure_filename(identifier[p])]_vars

\* C1 witness: a request declaring an insecure identifier was aborted while
\* another worker's ingest stored content.
C1_Witness ==
    \E p, q \in Procs :
        /\ identifier[p] # secure_filename(identifier[p])
        /\ result[p] = "abort500"
        /\ pc[q] = "done"

\* C2: write-once content under sequential requests: a set_materialsuite_content
\* that finds content for its identifier fails with the backend's
\* already-exists error and leaves the stores alone, and stored bytes, once
\* present, never change (they stay those of the first successful write).
C2_WriteOnceContent ==
    [][/\ \A p \in Procs :
            (pc[p] = "set_content" /\ Stepped(p)
                /\ identifier[p] \in DOMAIN content_store)
                => /\ pc'[p] = "failed"
                   /\ result'[p] \in AlreadyExistsErrors
                   /\ StoresUnchanged
       /\ \A i \in DOMAIN content_store :
            /\ i \in DOMAIN content_store'
            /\ content_store'[i] = content_store[i]]_vars

\* C2 witness: a second ingest with different bytes was refused and the
\* stored bytes are still the first ones.
C2_Witness ==
    \E p, q \in Procs :
        /\ pc[p] = "done" /\ pc[q] = "failed"
        /\ result[q] \in AlreadyExistsErrors
        /\ identifier[q] = identifier[p]
        /\ args[q].content # args[p].content
        /\ content_store[identifier[p]] = args[p].content

\* worker p's request carries content whose digest differs from the md5
\* fixity its PREMIS record declares
DigestMismatch(p) ==
    /\ pc[p] # "idle"
    /\ get_md5_from_premis(args[p].premis) # <<Md5(args[p].content)>>

\* C3: an ingest whose content digest differs from the declared md5 fixity
\* never reaches the success state and never returns "created".
C3_IntegrityGate ==
    \A p \in Procs : DigestMismatch(p) => (pc[p] # "done" /\ result[p] # "created")

\* C4: once an ingest with a digest mismatch has ended (and no other request
\* names its identifier), no metadata is stored for the identifier and
\* add_ingest_event has not touched its record.
C4_NoMetadataAfterMismatch ==
    \A p \in Procs :
        (/\ DigestMismatch(p)
         /\ pc[p] \in {"done", "failed"}
         /\ \A q \in Procs \ {p} : identifier[q] # identifier[p])
            => /\ identifier[p] \notin DOMAIN premis_store
               /\ premis_rec[p] = args[p].premis

\* worker p's set_materialsuite_content has returned normally
PutContentCompleted(p) ==
    \/ pc[p] \in {"add_ingest_event", "set_premis", "done"}
    \/ pc[p] = "failed" /\ result[p] = "DuplicateKeyError"

\* C5: of the ingests carrying one identifier, no two both complete
\* set_materialsuite_content, in any interleaving.
C5_OneWriterWins ==
    \A p, q \in Procs :
        (p # q /\ pc[p] # "idle" /\ pc[q] # "idle" /\ identifier[p] = identifier[q])
            => ~(PutContentCompleted(p) /\ PutContentCompleted(q))

\* C6: mongo_unescape(mongo_escape(m)) = m for every nested mapping m whose
\* keys are strings over "~", ".", "$", "p", "d" and "a".
C6_EscapeRoundTrip ==
    keys.pc = "unescaped" => keys.value = keys.some_dict

\* C7: the set_materialsuite_premis of a successful ingest stores a record
\* with the submitted events followed by exactly one more event, of type
\* "ingestion", that links to the record's first object and that the first
\* object links back to; the ingest then answers "created".
C7_IngestEventPersisted ==
    [][\A p \in Procs :
          (pc[p] = "set_premis" /\ pc'[p] = "done")
              => \A entry \in {premis_store'[identifier[p]]} :
                 LET stored    == PremisOfEntry(entry)
                     submitted == args[p].premis
                     n         == Len(submitted.events)
                 IN  /\ result'[p] = "created"
                     /\ Len(stored.events) = n + 1
                     /\ SubSeq(stored.events, 1, n) = submitted.events
                     /\ stored.events[n + 1].eventType = "ingestion"
                     /\ \E l \in Range(stored.events[n + 1].linkingObjectIdentifier) :
                           l.linkingObjectIdentifierValue
                               = stored.objects[1].objectIdentifier[1]
                     /\ \E l \in Range(stored.objects[1].linkingEventIdentifier) :
                           l.linkingEventIdentifierValue
                               = stored.events[n + 1].eventIdentifier.eventIdentifierValue
                     /\ Len(stored.objects) = Len(submitted.objects)]_vars

\* C7 witness: an ingest of a record that already carried an event succeeded
\* and the stored record holds two events.
C7_Witness ==
    \E p \in Procs :
        /\ pc[p] = "done"
        /\ Len(args[p].premis.events) = 1
        /\ identifier[p] \in DOMAIN premis_store
        /\ Len(get_materialsuite_premis(identifier[p]).events) = 2

\* C8: check_materialsuite_exists(id) is contentExists(id) or
\* metadataExists(id) in every reachable store state, and the descriptor
\* endpoint answers with the links exactly when one of the two exists.
C8_ExistsIsContentOrPremis ==
    /\ [](\A id \in Identifiers :
            check_materialsuite_exists(id)
                <=> (id \in DOMAIN content_store \/ id \in DOMAIN premis_store))
    /\ [][\A id \in RouteIds :
            (resp' # resp /\ resp'.id = id)
                => (resp'.body = "links"
                      <=> (id \in DOMAIN content_store \/ id \in DOMAIN premis_store))]_vars

\* C9: a set_materialsuite_premis for an identifier that already has a stored
\* record succeeds, and get_materialsuite_premis then returns the new record.
C9_PremisOverwrite ==
    [][\A p \in Procs :
          (pc[p] = "set_premis" /\ Stepped(p) /\ identifier[p] \in DOMAIN premis_store)
              => /\ pc'[p] = "done"
                 /\ \A entry \in {premis_store'[identifier[p]]} :
                       PremisOfEntry(entry) = premis_rec[p]]_vars

\* C10: an ingest that finds content for its identifier fails in
\* set_materialsuite_content with the already-exists error and does nothing
\* more: the step changes no store, the request never moves again, its record
\* never got an ingest event.
C10_ExistingContentStopsIngest ==
    /\ [][\A p \in Procs :
            /\ (pc[p] = "set_content" /\ Stepped(p)
                   /\ identifier[p] \in DOMAIN content_store)
                  => /\ pc'[p] = "failed"
                     /\ result'[p] \in AlreadyExistsErrors
                     /\ premis_rec'[p] = args[p].premis
                     /\ StoresUnchanged
            /\ (pc[p] = "failed" /\ result[p] \in AlreadyExistsErrors)
                  => /\ pc'[p] = pc[p]
                     /\ premis_rec'[p] = premis_rec[p]]_vars
    /\ [](\A p \in Procs :
            (pc[p] = "failed" /\ result[p] \in AlreadyExistsErrors)
                => premis_rec[p] = args[p].premis)

\* C10 witness: a re-ingest of an identifier with stored content and metadata
\* failed with the already-exists error.
C10_Witness ==
    \E p \in Procs :
        /\ pc[p] = "failed"
        /\ result[p] \in AlreadyExistsErrors
        /\ identifier[p] \in DOMAIN content_store
        /\ identifier[p] \in DOMAIN premis_store
        /\ content_store[identifier[p]] # args[p].content

IsPrefix(short, long) ==
    Len(short) <= Len(long) /\ SubSeq(long, 1, Len(short)) = short

\* C11: the stored event sequence of an identifier only grows by appending
\* (stored events are never changed or removed), and the ingest event of
\* every successful ingest stays in the stored record of its identifier.
C11_StoredEventsOnlyGrow ==
    /\ [][\A i \in DOMAIN premis_store :
            /\ i \in DOMAIN premis_store'
            /\ \A old \in {premis_store[i]}, new \in {premis_store'[i]} :
                  IsPrefix(PremisOfEntry(old).events, PremisOfEntry(new).events)]_vars
    /\ [](\A p \in Procs :
            pc[p] = "done"
                => /\ identifier[p] \in DOMAIN premis_store
                   /\ premis_rec[p].events[Len(premis_rec[p].events)]
                          \in Range(get_materialsuite_premis(identifier[p]).events))

\* C12: an ingest whose set_materialsuite_premis failed reports no success,
\* leaves its content stored and leaves the identifier without metadata.
C12_HalfCreatedAfterPremisFailure ==
    \A p \in Procs :
        (pc[p] = "failed" /\ result[p] = "DuplicateKeyError")
            => /\ result[p] # "created"
               /\ identifier[p] \in DOMAIN content_store
               /\ identifier[p] \notin DOMAIN premis_store

\* the order of the steps of one ingest
IngestOrder ==
    { <<"idle", "set_content">>, <<"idle", "failed">>,
      <<"set_content", "content_save">>, <<"set_content", "failed">>,
      <<"content_save", "add_ingest_event">>, <<"content_save", "failed">>,
      <<"add_ingest_event", "set_premis">>,
      <<"set_premis", "done">>, <<"set_premis", "failed">> }

\* C18: an ingest validates, stores content, attaches the event and stores
\* the metadata in that order, the metadata only after its content write
\* returned; so in every reachable state, also between the steps of
\* concurrent ingests, stored metadata implies stored content.
C18_IngestOrdering ==
    /\ [](DOMAIN premis_store \subseteq DOMAIN content_store)
    /\ [][\A p \in Procs :
            Stepped(p)
                => /\ <<pc[p], pc'[p]>> \in IngestOrder
                   /\ content_store' # content_store => pc[p] = "content_save"
                   /\ premis_rec'[p] # premis_rec[p]
                          => pc[p] \in {"idle", "add_ingest_event"}
                   /\ premis_store' # premis_store
                          => /\ pc[p] = "set_premis"
                             /\ identifier[p] \in DOMAIN content_store]_vars

\* C18 witness: content is stored, metadata is not, and the ingest is still
\* between its content write and its metadata write.
C18_Witness ==
    \E p \in Procs :
        /\ pc[p] \in {"add_ingest_event", "set_premis"}
        /\ identifier[p] \in DOMAIN content_store
        /\ identifier[p] \notin DOMAIN premis_store

\* the object identifier the first object of worker p's submitted record declares
Declared(p) == args[p].premis.objects[1].objectIdentifier[1]

\* C19: the storage key of an ingest is the identifier its record's first
\* object declares, for both writes: a successful ingest leaves content and
\* metadata under that key and no step of it touches another key.
C19_KeyIsDeclaredIdentifier ==
    /\ [](\A p \in Procs :
            pc[p] # "idle"
                => /\ identifier[p] = Declared(p)
                   /\ pc[p] = "done"
                        => /\ Declared(p) \in DOMAIN content_store
                           /\ Declared(p) \in DOMAIN premis_store)
    /\ [][\A p \in Procs :
            (Stepped(p) /\ pc[p] # "idle")
                => \A i \in (DOMAIN content_store' \cup DOMAIN premis_store') \ {Declared(p)} :
                      /\ i \in DOMAIN content_store' <=> i \in DOMAIN content_store
                      /\ i \in DOMAIN premis_store' <=> i \in DOMAIN premis_store
                      /\ i \in DOMAIN content_store => content_store'[i] = content_store[i]
                      /\ i \in DOMAIN premis_store => premis_store'[i] = premis_store[i]]_vars

\* C19 witness: a record with two objects was ingested and nothing is stored
\* under the second object's identifier.
C19_Witness ==
    \E p \in Procs :
        /\ pc[p] = "done"
        /\ Len(args[p].premis.objects) = 2
        /\ args[p].premis.objects[2].objectIdentifier[1] \notin DOMAIN content_store
        /\ args[p].premis.objects[2].objectIdentifier[1] \notin DOMAIN premis_store

\* the pages a caller can ask for
MaxPage == 2

IsAscending(ids) == \A k \in 1..(Len(ids) - 1) : LexLess(ids[k], ids[k + 1])

\* C13: in every backend, on the corpus as it stands and for all N, M >= 0,
\* the list from 0 of N followed by the list from N of M is exactly the list
\* from 0 of N+M, in ascending order of identifier without duplicates.
C13_PaginationStability ==
    \A N \in 0..MaxPage, M \in 0..MaxPage :
        LET first  == get_materialsuite_id_list(0, N)
            second == get_materialsuite_id_list(N, M)
            both   == get_materialsuite_id_list(0, N + M)
        IN  /\ first.ok /\ second.ok /\ both.ok
            /\ first.ids \o second.ids = both.ids
            /\ IsAscending(first.ids \o second.ids)

\* a list request was answered just now
Listed == resp' # resp /\ resp'.endpoint = "Root"

\* C16 as stated: the limit handed to the backend and echoed is at most
\* MAX_LIMIT, is the requested limit when that is at most MAX_LIMIT, and is
\* 1000 when no limit is given.
C16_LimitDefaultsTo1000 ==
    [][Listed
         => /\ resp'.limit <= MaxLimit
            /\ resp'.requested # <<>> /\ resp'.requested[1] <= MaxLimit
                  => resp'.limit = resp'.requested[1]
            /\ resp'.requested = <<>> => resp'.limit = 1000]_vars

\* C16, amended: the limit handed to the backend and echoed is at most
\* MAX_LIMIT, is the requested limit when that is at most MAX_LIMIT, and is
\* the smaller of 1000 and MAX_LIMIT when no limit is given.
C16_LimitIsChecked ==
    [][Listed
         => /\ resp'.limit <= MaxLimit
            /\ resp'.requested # <<>> /\ resp'.requested[1] <= MaxLimit
                  => resp'.limit = resp'.requested[1]
            /\ resp'.requested = <<>>
                  => resp'.limit = IF MaxLimit < 1000 THEN MaxLimit ELSE 1000]_vars

\* C16 witness: a list request asked for more than the configured MAX_LIMIT
\* and the backend answered with a list.
C16_Witness ==
    /\ resp.endpoint = "Root"
    /\ resp.body = "materialsuites"
    /\ resp.materialsuites # <<>>
    /\ config.MAX_LIMIT # <<>>
    /\ resp.requested # <<>>
    /\ resp.requested[1] > MaxLimit
    /\ resp.limit = MaxLimit

\* a request to the named endpoint was answered just now
Answered(endpoint) == resp' # resp /\ resp'.endpoint = endpoint

\* C14: a PUT on the metadata sub-resource replaces the stored record of an
\* identifier that has one by the payload, and for an identifier without
\* one fails with "not found" and creates no record.
C14_PutReplacesExistingOnly ==
    [][Answered("MaterialSuitePREMIS.put")
         => IF resp'.id \in DOMAIN premis_store
            THEN /\ resp'.id \in DOMAIN premis_store'
                 /\ \A entry \in {premis_store'[resp'.id]} :
                       PremisOfEntry(entry) = resp'.payload
            ELSE /\ resp'.body = "NotFound"
                 /\ premis_store' = premis_store]_vars

\* C15: a read of content for an identifier without stored content, and a
\* read of metadata (native or decoded) for an identifier without stored
\* metadata, fails with NotFound.
C15_AbsentReadsAreNotFound ==
    [][/\ (Answered("MaterialSuiteContent") /\ resp'.id \notin DOMAIN content_store)
            => resp'.body = "NotFound"
       /\ (Answered("MaterialSuitePREMIS") /\ resp'.id \notin DOMAIN premis_store)
            => resp'.body = "NotFound"
       /\ (Answered("MaterialSuitePREMISJson") /\ resp'.id \notin DOMAIN premis_store)
            => resp'.body = "NotFound"]_vars

\* C17: diff_materialsuite_premis fails with NotImplementedError in every
\* backend, for every identifier and patch, and leaves stored content and
\* metadata as they were.
C17_DiffIsUnimplemented ==
    [][Answered("diff_materialsuite_premis")
         => /\ resp'.body = "NotImplementedError"
            /\ StoresUnchanged]_vars

\* C17 witness: the diff was asked for an identifier that has stored
\* metadata, with a patch that differs from it.
C17_Witness ==
    /\ resp.endpoint = "diff_materialsuite_premis"
    /\ resp.id \in DOMAIN premis_store
    /\ resp.id \in DOMAIN content_store
    /\ get_materialsuite_premis(resp.id) # resp.diff

\* handle_configs has run
Registered == config.state # "registering"

\* C20 as stated: an unsupported STORAGE_BACKEND (compared without regard to
\* case) raises an error and configures no storage; mongo, filesystem and
\* mix each set the storage to the matching backend; noerror raises nothing
\* and sets no storage.
C20_BackendSelection ==
    Registered
        => /\ config.STORAGE_BACKEND \in OtherChoices
                => config.state = "RuntimeError" /\ config.storage = "none"
           /\ config.STORAGE_BACKEND \in MongoChoices
                => config.storage = "MongoStorageBackend"
           /\ config.STORAGE_BACKEND \in FilesystemChoices
                => config.storage = "FileSystemStorageBackend"
           /\ config.STORAGE_BACKEND \in MixChoices
                => config.storage = "FileContentMongoPremisStorageBackend"
           /\ config.STORAGE_BACKEND \in NoerrorChoices
                => config.state = "registered" /\ config.storage = "none"

\* the backend constructor finds the settings it reads with bp.config[...]
Has(settings) == settings \subseteq config.settings

\* C20, amended: as stated, except that mongo, filesystem and mix set the
\* storage to the matching backend when the settings their constructor
\* requires are configured, and otherwise raise KeyError and configure no
\* storage.
C20_BackendSelectionWithSettings ==
    Registered
        => /\ config.STORAGE_BACKEND \in OtherChoices
                => config.state = "RuntimeError" /\ config.storage = "none"
           /\ config.STORAGE_BACKEND \in MongoChoices
                => IF Has({"LTS_MONGO_HOST"})
                   THEN config.state = "registered" /\ config.storage = "MongoStorageBackend"
                   ELSE config.state = "KeyError" /\ config.storage = "none"
           /\ config.STORAGE_BACKEND \in FilesystemChoices
                => IF Has({"LTS_DIR", "PREMIS_DIR"})
                   THEN config.state = "registered" /\ config.storage = "FileSystemStorageBackend"
                   ELSE config.state = "KeyError" /\ config.storage = "none"
           /\ config.STORAGE_BACKEND \in MixChoices
                => IF Has({"LTS_DIR", "PREMIS_MONGO_HOST"})
                   THEN /\ config.state = "registered"
                        /\ config.storage = "FileContentMongoPremisStorageBackend"
                   ELSE config.state = "KeyError" /\ config.storage = "none"
           /\ config.STORAGE_BACKEND \in NoerrorChoices
                => config.state = "registered" /\ config.storage = "none"

\* C20 witness: a backend spelled in capitals was registered with only the
\* settings its constructor requires.
C20_Witness ==
    /\ config.state = "registered"
    /\ config.STORAGE_BACKEND \in MixChoices \ {MixName}
    /\ config.settings = {"LTS_DIR", "PREMIS_MONGO_HOST"}
    /\ config.storage = "FileContentMongoPremisStorageBackend"

RECURSIVE Concat(_)
Concat(chunks) == IF chunks = <<>> THEN <<>> ELSE Head(chunks) \o Concat(Tail(chunks))

\* the generator of a content response is running
Streaming ==
    \/ resp.endpoint = "MaterialSuiteContent" /\ resp.body = "content"
    \/ resp.endpoint = "generate" /\ resp.body = "streaming"

\* the generator has ended, by leaving its loop or by an exception
Finished == resp.endpoint = "generate" /\ resp.body # "streaming"

\* C21: for every stored content and every BUFF >= 1 the chunk generator
\* terminates, every yielded chunk has at most BUFF bytes, only the last
\* chunk is empty, and the yielded chunks in order make up the stored content.
C21_ChunksMakeUpContent ==
    /\ Streaming ~> Finished
    /\ [](resp.endpoint = "generate"
            => \A k \in 1..Len(resp.chunks) :
                  /\ Len(resp.chunks[k]) <= config.BUFF
                  /\ resp.chunks[k] = <<>> => k = Len(resp.chunks))
    /\ [](Finished
            => /\ resp.body = "done"
               /\ resp.chunks # <<>>
               /\ resp.chunks[Len(resp.chunks)] = <<>>
               /\ Concat(resp.chunks) = get_materialsuite_content(resp.id))

====
